---- MODULE Spec2Model ----
(***************************************************************************)
(* Model of api/examples/demo-rx.py: the Blocksat packet header codec,     *)
(* packetize, send_pkts, fetch_api_data and the catch-up loop of main().   *)
(*                                                                         *)
(* A message's bytes are identified by (message number, byte offset): a    *)
(* payload slice data[s:e] is the record [msg, from, to] of the offsets it *)
(* covers, clamped to the data length as Python slicing clamps it.         *)
(***************************************************************************)
EXTENDS Integers, Sequences, FiniteSets, TLC

(* ---------------------------------------------------------------------- *)
(* Bounds of the model                                                     *)
(* ---------------------------------------------------------------------- *)
\* Largest sequence number the catch-up loop may fetch (Python ints are
\* unbounded; the loop counter is capped here).
MaxSeq == 4
\* Number of feed events consumed in one behaviour.
MaxEvents == 2

(* ---------------------------------------------------------------------- *)
(* Constants of demo-rx.py                                                 *)
(* ---------------------------------------------------------------------- *)
API_TYPE_LAST_FRAG == 1
API_TYPE_MORE_FRAG == 129
\* MAX_UDP_PLOAD without the room for the Blocksat, UDP and IP headers
MAX_UDP_PLOAD_NoHeaders == 65536 - 1

MAX_UDP_PLOAD == 65536 - 36 - 1
\* last_seq_num = None
None == -1

(* ---------------------------------------------------------------------- *)
(* Header codec and packetize                                              *)
(* ---------------------------------------------------------------------- *)
\* struct_pack with '<cxHI' in place of '!cxHI': little-endian fields
struct_pack_LittleEndian(octet_0, i_frag, seq) ==
    << octet_0,
       0,
       i_frag % 256,
       (i_frag \div 256) % 256,
       seq % 256,
       (seq \div 256) % 256,
       (seq \div 65536) % 256,
       (seq \div 16777216) % 256 >>

\* struct_pack with the fragment number in one byte: '!cxxBI'
struct_pack_NarrowIndex(octet_0, i_frag, seq) ==
    << octet_0,
       0,
       0,
       i_frag % 256,
       (seq \div 16777216) % 256,
       (seq \div 65536) % 256,
       (seq \div 256) % 256,
       seq % 256 >>

\* struct.pack('!cxHI', octet_0, i_frag, seq_num): network byte order, one
\* char, one pad byte, unsigned 16 bit, unsigned 32 bit.
struct_pack(octet_0, i_frag, seq) ==
    << octet_0,
       0,
       (i_frag \div 256) % 256,
       i_frag % 256,
       (seq \div 16777216) % 256,
       (seq \div 65536) % 256,
       (seq \div 256) % 256,
       seq % 256 >>

\* pack_raises with the upper limit of the 'H' format one too low
pack_raises_OffByOne(i_frag, seq) == i_frag < 0 \/ i_frag >= 65535

\* struct.pack raises struct.error when a number does not fit its format:
\* 'H' takes 0..65535 ('I' takes 0..2^32-1, which every sequence number of
\* the model fits)
pack_raises(i_frag, seq) == i_frag < 0 \/ i_frag > 65535

\* math.ceil(len(data) / MAX_UDP_PLOAD)
n_frags(len) == (len + MAX_UDP_PLOAD - 1) \div MAX_UDP_PLOAD

Min(a, b) == IF a <= b THEN a ELSE b

\* Slice with an inclusive ending byte: data[s_byte:e_byte - 1]
Slice_DropsLast(d, s_byte, e_byte) ==
    [msg |-> d.msg, from |-> Min(s_byte, d.len), to |-> Min(e_byte - 1, d.len)]

\* data[s_byte:e_byte] of a message of the given length
Slice(d, s_byte, e_byte) ==
    [msg |-> d.msg, from |-> Min(s_byte, d.len), to |-> Min(e_byte, d.len)]

\* octet_0: the more-fragments bit is set unless this is the last fragment
Octet0(is_last) == IF is_last THEN API_TYPE_LAST_FRAG ELSE API_TYPE_MORE_FRAG

\* One iteration of the for loop of packetize, for fragment i_frag
Packet(d, seq, i_frag) ==
    LET octet_0 == Octet0((i_frag + 1) = n_frags(d.len))
        header  == struct_pack(octet_0, i_frag, seq)
        s_byte  == i_frag * MAX_UDP_PLOAD
        e_byte  == (i_frag + 1) * MAX_UDP_PLOAD
    IN  [header |-> header, payload |-> Slice(d, s_byte, e_byte)]

\* packetize(data, seq_num): the list of packets, in list order
packetize(d, seq) ==
    [k \in 1..n_frags(d.len) |-> Packet(d, seq, k - 1)]

(* ---------------------------------------------------------------------- *)
(* State of main()                                                         *)
(* ---------------------------------------------------------------------- *)
VARIABLES
    pc,               \* position of main(): connect, wait, loop, fetch, send,
                      \* mark, exited (and pk_call, pk_done for PkSpec)
    last_seq_num,     \* None or the last recorded sequence number
    order,            \* the order of the event being handled
    seq_num,          \* order["tx_seq_num"] of the event being handled
    rx_pending,
    expected_seq_num,
    data,             \* result of fetch_api_data
    pkts,             \* result of packetize
    i_pkt,            \* packets of pkts already handed to the socket
    exitCause,        \* exception (or exit()) that ended the process
    \* history
    fetchLog,         \* every call of fetch_api_data: [seq, result, len]
    wire,             \* every datagram handed to sock.sendto, in order
    markLog,          \* every value assigned to last_seq_num, in order
    nEvents,          \* events consumed so far
    annL,             \* last_seq_num when the current event was consumed
    annFetch,         \* Len(fetchLog) when the current event was consumed
    annWire,          \* Len(wire) when the current event was consumed
    annState,         \* "none", or "handling" / "done": the latest "sent" event
                      \* is being handled / has been handled completely
    reconnected,      \* the feed was re-subscribed since the last "sent" event
    reconnL,          \* last_seq_num at the latest reconnect (while reconnected
                      \* is FALSE: at the reconnect before the current event)
    annReconn,        \* the current event is the first "sent" after a reconnect
    call              \* arguments and result of the function run on its own by
                      \* HdrSpec and FragSpec (NoCall elsewhere)

vars == << pc, last_seq_num, order, seq_num, rx_pending, expected_seq_num,
           data, pkts, i_pkt, exitCause, fetchLog, wire, markLog, nEvents,
           annL, annFetch, annWire, annState, reconnected, reconnL, annReconn,
           call >>

ctl   == << order, seq_num, rx_pending, expected_seq_num >>
work  == << data, pkts, i_pkt >>
hist  == << fetchLog, wire, markLog >>
ann   == << annL, annFetch, annWire, annState, annReconn >>
recon == << reconnected, reconnL >>

\* Inputs
Statuses == {"sent", "transmitting"}
AnnSeqs  == 0..(MaxSeq - 1)
Orders   == [status : Statuses, tx_seq_num : AnnSeqs]
DataLens == {0, 1, MAX_UDP_PLOAD + 1}
NoOrder  == [status |-> "none", tx_seq_num |-> 0]
NoData   == [msg |-> 0, len |-> 0]
NoCall   == [fn |-> "none"]

Init ==
    /\ pc = "connect"
    /\ last_seq_num = None
    /\ order = NoOrder
    /\ seq_num = 0
    /\ rx_pending = FALSE
    /\ expected_seq_num = 0
    /\ data = NoData
    /\ pkts = << >>
    /\ i_pkt = 0
    /\ exitCause = "none"
    /\ fetchLog = << >>
    /\ wire = << >>
    /\ markLog = << >>
    /\ nEvents = 0
    /\ annL = None
    /\ annFetch = 0
    /\ annWire = 0
    /\ annState = "none"
    /\ reconnected = FALSE
    /\ reconnL = None
    /\ annReconn = FALSE
    /\ call = NoCall

(* ---------------------------------------------------------------------- *)
(* The outer while (True) loop: subscription and its failures              *)
(* ---------------------------------------------------------------------- *)
\* http.request(...) and SSEClient(r) succeed: "Connected. Waiting for events"
Connect ==
    /\ pc = "connect"
    /\ pc' = "wait"
    /\ UNCHANGED << last_seq_num, ctl, work, exitCause, hist, nEvents, ann,
                    recon >>
    /\ UNCHANGED call

\* urllib3 ProtocolError while subscribing: sleep(1), next iteration
ConnectProtocolError ==
    /\ pc = "connect"
    /\ pc' = "connect"
    /\ reconnected' = TRUE
    /\ reconnL' = last_seq_num
    /\ UNCHANGED << last_seq_num, ctl, work, exitCause, hist, nEvents, ann >>
    /\ UNCHANGED call

\* urllib3 MaxRetryError: exit()
ConnectMaxRetryError ==
    /\ pc = "connect"
    /\ pc' = "exited"
    /\ exitCause' = "MaxRetryError"
    /\ UNCHANGED << last_seq_num, ctl, work, hist, nEvents, ann, recon >>
    /\ UNCHANGED call

\* FeedProtocolError with the tracker initialised inside the while (True) loop
FeedProtocolError_ResetsTracker ==
    /\ pc = "wait"
    /\ pc' = "connect"
    /\ reconnected' = TRUE
    /\ reconnL' = last_seq_num
    /\ last_seq_num' = None
    /\ UNCHANGED << ctl, work, exitCause, hist, nEvents, ann >>
    /\ UNCHANGED call

\* urllib3 ProtocolError raised by client.events() while waiting for an event:
\* caught by the except clause, sleep(1), re-subscribe
FeedProtocolError ==
    /\ pc = "wait"
    /\ pc' = "connect"
    /\ reconnected' = TRUE
    /\ reconnL' = last_seq_num
    /\ UNCHANGED << last_seq_num, ctl, work, exitCause, hist, nEvents, ann >>
    /\ UNCHANGED call

(* ---------------------------------------------------------------------- *)
(* for event in client.events()                                            *)
(* ---------------------------------------------------------------------- *)
\* An event whose order has status "sent": enter the catch-up loop
EventSent ==
    /\ pc = "wait"
    /\ nEvents < MaxEvents
    /\ \E o \in Orders :
        /\ o.status = "sent"
        /\ order' = o
        /\ seq_num' = o.tx_seq_num
    /\ rx_pending' = TRUE
    /\ pc' = "loop"
    /\ nEvents' = nEvents + 1
    /\ annL' = last_seq_num
    /\ annFetch' = Len(fetchLog)
    /\ annWire' = Len(wire)
    /\ annState' = "handling"
    /\ annReconn' = reconnected
    /\ reconnected' = FALSE
    /\ UNCHANGED << last_seq_num, expected_seq_num, work, exitCause, hist,
                    reconnL >>
    /\ UNCHANGED call

\* EventOther without the test of order["status"]: every event is handled
EventOther_Handled ==
    /\ pc = "wait"
    /\ nEvents < MaxEvents
    /\ \E o \in Orders :
        /\ o.status # "sent"
        /\ order' = o
        /\ seq_num' = o.tx_seq_num
    /\ rx_pending' = TRUE
    /\ pc' = "loop"
    /\ nEvents' = nEvents + 1
    /\ annL' = last_seq_num
    /\ annFetch' = Len(fetchLog)
    /\ annWire' = Len(wire)
    /\ annState' = "handling"
    /\ annReconn' = reconnected
    /\ reconnected' = FALSE
    /\ UNCHANGED << last_seq_num, expected_seq_num, work, exitCause, hist,
                    reconnL >>
    /\ UNCHANGED call

\* An event whose order has any other status: nothing is done
EventOther ==
    /\ pc = "wait"
    /\ nEvents < MaxEvents
    /\ \E o \in Orders :
        /\ o.status # "sent"
        /\ order' = o
    /\ nEvents' = nEvents + 1
    /\ pc' = "wait"
    /\ UNCHANGED << last_seq_num, seq_num, rx_pending, expected_seq_num, work,
                    exitCause, hist, ann, recon >>
    /\ UNCHANGED call

(* ---------------------------------------------------------------------- *)
(* while (rx_pending)                                                      *)
(* ---------------------------------------------------------------------- *)
\* Expected without catch-up: the announced number is always the expected one
Expected_NoCatchUp(last, seq) == seq

\* Expected that backfills from 0 when no message was received yet
Expected_Backfill(last, seq) == IF last = None THEN 0 ELSE last + 1

\* The expected sequence number of one iteration
Expected(last, seq) == IF last = None THEN seq ELSE last + 1

\* LoopIter that clears rx_pending on every iteration
LoopIter_OneShot ==
    /\ pc = "loop"
    /\ rx_pending
    /\ Expected(last_seq_num, seq_num) <= MaxSeq
    /\ expected_seq_num' = Expected(last_seq_num, seq_num)
    /\ rx_pending' = FALSE
    /\ pc' = "fetch"
    /\ UNCHANGED << last_seq_num, order, seq_num, work, exitCause, hist,
                    nEvents, ann, recon >>
    /\ UNCHANGED call

\* LoopIter that records the expected number before it is fetched
LoopIter_MarksEarly ==
    /\ pc = "loop"
    /\ rx_pending
    /\ Expected(last_seq_num, seq_num) <= MaxSeq
    /\ expected_seq_num' = Expected(last_seq_num, seq_num)
    /\ rx_pending' = ~(seq_num = expected_seq_num')
    /\ last_seq_num' = expected_seq_num'
    /\ pc' = "fetch"
    /\ UNCHANGED << order, seq_num, work, exitCause, hist, nEvents, ann,
                    recon >>
    /\ UNCHANGED call

\* Top of one iteration: expected_seq_num and rx_pending
LoopIter ==
    /\ pc = "loop"
    /\ rx_pending
    /\ Expected(last_seq_num, seq_num) <= MaxSeq
    /\ expected_seq_num' = Expected(last_seq_num, seq_num)
    /\ rx_pending' = ~(seq_num = expected_seq_num')
    /\ pc' = "fetch"
    /\ UNCHANGED << last_seq_num, order, seq_num, work, exitCause, hist,
                    nEvents, ann, recon >>
    /\ UNCHANGED call

\* rx_pending is False: back to waiting for the next event
LoopExit ==
    /\ pc = "loop"
    /\ ~rx_pending
    /\ pc' = "wait"
    /\ annState' = "done"
    /\ UNCHANGED << last_seq_num, ctl, work, exitCause, hist, nEvents,
                    annL, annFetch, annWire, annReconn, recon >>
    /\ UNCHANGED call

\* Outcomes of requests.get + raise_for_status in fetch_api_data
FetchResults == {"ok", "no_content", "not_found", "conn_error"}

\* Fetch that packetizes under the announced number of the event
Fetch_AnnouncedHeader ==
    /\ pc = "fetch"
    /\ \E r \in FetchResults, l \in DataLens :
        /\ (r # "ok") => (l = 0)
        /\ fetchLog' = Append(fetchLog,
                              [seq |-> expected_seq_num, result |-> r, len |-> l])
        /\ CASE r = "ok" ->
                \* status 200: r.content is returned, data is not None
                /\ data' = [msg |-> expected_seq_num, len |-> l]
                /\ pkts' = packetize(data', seq_num)
                /\ i_pkt' = 0
                /\ pc' = "send"
                /\ UNCHANGED exitCause
             [] r = "no_content" ->
                \* a status that is neither an error nor 200: returns None
                /\ pc' = "mark"
                /\ UNCHANGED << work, exitCause >>
             [] r = "not_found" ->
                \* 404: raise_for_status raises HTTPError, caught nowhere
                /\ pc' = "exited"
                /\ exitCause' = "HTTPError"
                /\ UNCHANGED work
             [] r = "conn_error" ->
                \* requests.get raises ConnectionError, caught nowhere
                /\ pc' = "exited"
                /\ exitCause' = "ConnectionError"
                /\ UNCHANGED work
    /\ UNCHANGED << last_seq_num, ctl, wire, markLog, nEvents, ann, recon >>
    /\ UNCHANGED call

\* data = fetch_api_data(server_addr, expected_seq_num), and packetize
Fetch ==
    /\ pc = "fetch"
    /\ \E r \in FetchResults, l \in DataLens :
        /\ (r # "ok") => (l = 0)
        /\ fetchLog' = Append(fetchLog,
                              [seq |-> expected_seq_num, result |-> r, len |-> l])
        /\ CASE r = "ok" ->
                \* status 200: r.content is returned, data is not None
                /\ data' = [msg |-> expected_seq_num, len |-> l]
                /\ pkts' = packetize(data', expected_seq_num)
                /\ i_pkt' = 0
                /\ pc' = "send"
                /\ UNCHANGED exitCause
             [] r = "no_content" ->
                \* a status that is neither an error nor 200: returns None
                /\ pc' = "mark"
                /\ UNCHANGED << work, exitCause >>
             [] r = "not_found" ->
                \* 404: raise_for_status raises HTTPError, caught nowhere
                /\ pc' = "exited"
                /\ exitCause' = "HTTPError"
                /\ UNCHANGED work
             [] r = "conn_error" ->
                \* requests.get raises ConnectionError, caught nowhere
                /\ pc' = "exited"
                /\ exitCause' = "ConnectionError"
                /\ UNCHANGED work
    /\ UNCHANGED << last_seq_num, ctl, wire, markLog, nEvents, ann, recon >>
    /\ UNCHANGED call

\* SendPkt that walks the list from its end
SendPkt_Reversed ==
    /\ pc = "send"
    /\ i_pkt < Len(pkts)
    /\ wire' = Append(wire, pkts[Len(pkts) - i_pkt])
    /\ i_pkt' = i_pkt + 1
    /\ UNCHANGED << pc, last_seq_num, ctl, data, pkts, exitCause, fetchLog,
                    markLog, nEvents, ann, recon >>
    /\ UNCHANGED call

\* send_pkts: one sock.sendto
SendPkt ==
    /\ pc = "send"
    /\ i_pkt < Len(pkts)
    /\ wire' = Append(wire, pkts[i_pkt + 1])
    /\ i_pkt' = i_pkt + 1
    /\ UNCHANGED << pc, last_seq_num, ctl, data, pkts, exitCause, fetchLog,
                    markLog, nEvents, ann, recon >>
    /\ UNCHANGED call

\* send_pkts: sock.sendto raises OSError, caught nowhere
SendFail ==
    /\ pc = "send"
    /\ i_pkt < Len(pkts)
    /\ pc' = "exited"
    /\ exitCause' = "OSError"
    /\ UNCHANGED << last_seq_num, ctl, work, hist, nEvents, ann, recon >>
    /\ UNCHANGED call

\* SendReturn that leaves send_pkts after the first datagram
SendReturn_Early ==
    /\ pc = "send"
    /\ i_pkt = Min(1, Len(pkts))
    /\ pc' = "mark"
    /\ UNCHANGED << last_seq_num, ctl, work, exitCause, hist, nEvents, ann,
                    recon >>
    /\ UNCHANGED call

\* send_pkts returns
SendReturn ==
    /\ pc = "send"
    /\ i_pkt = Len(pkts)
    /\ pc' = "mark"
    /\ UNCHANGED << last_seq_num, ctl, work, exitCause, hist, nEvents, ann,
                    recon >>
    /\ UNCHANGED call

\* Mark that records the announced number instead of the fetched one
Mark_Announced ==
    /\ pc = "mark"
    /\ last_seq_num' = seq_num
    /\ markLog' = Append(markLog, seq_num)
    /\ pc' = "loop"
    /\ UNCHANGED << ctl, work, exitCause, fetchLog, wire, nEvents, ann, recon >>
    /\ UNCHANGED call

\* last_seq_num = expected_seq_num
Mark ==
    /\ pc = "mark"
    /\ last_seq_num' = expected_seq_num
    /\ markLog' = Append(markLog, expected_seq_num)
    /\ pc' = "loop"
    /\ UNCHANGED << ctl, work, exitCause, fetchLog, wire, nEvents, ann, recon >>
    /\ UNCHANGED call

Next ==
    \/ Connect
    \/ ConnectProtocolError
    \/ ConnectMaxRetryError
    \/ FeedProtocolError
    \/ EventSent
    \/ EventOther
    \/ LoopIter
    \/ LoopExit
    \/ Fetch
    \/ SendPkt
    \/ SendFail
    \/ SendReturn
    \/ Mark

Spec == Init /\ [][Next]_vars

(* ---------------------------------------------------------------------- *)
(* packetize on its own: inputs drawn from bounded sets                    *)
(* ---------------------------------------------------------------------- *)
PkLens == {0, 1, MAX_UDP_PLOAD, MAX_UDP_PLOAD + 1, 2 * MAX_UDP_PLOAD + 5,
           256 * MAX_UDP_PLOAD + 1}
PkSeqs == {0, 1, 255, 256, 4660, 65535, 65536, 16777216, 305419896,
           2147483647}

PkInit ==
    /\ pc = "pk_call"
    /\ expected_seq_num \in PkSeqs
    /\ \E l \in PkLens : data = [msg |-> expected_seq_num, len |-> l]
    /\ last_seq_num = None
    /\ order = NoOrder
    /\ seq_num = 0
    /\ rx_pending = FALSE
    /\ pkts = << >>
    /\ i_pkt = 0
    /\ exitCause = "none"
    /\ fetchLog = << >>
    /\ wire = << >>
    /\ markLog = << >>
    /\ nEvents = 0
    /\ annL = None
    /\ annFetch = 0
    /\ annWire = 0
    /\ annState = "none"
    /\ reconnected = FALSE
    /\ reconnL = None
    /\ annReconn = FALSE
    /\ call = NoCall

\* pkts = packetize(data, expected_seq_num)
PacketizeCall ==
    /\ pc = "pk_call"
    /\ pkts' = packetize(data, expected_seq_num)
    /\ pc' = "pk_done"
    /\ UNCHANGED << last_seq_num, ctl, data, i_pkt, exitCause, hist, nEvents,
                    ann, recon >>
    /\ UNCHANGED call

PkNext == PacketizeCall

PkSpec == PkInit /\ [][PkNext]_vars

(* ---------------------------------------------------------------------- *)
(* The header codec on its own                                             *)
(* ---------------------------------------------------------------------- *)
HdrIndices == {0, 1, 255, 256, 257, 65535}
HdrInputs  == [last : BOOLEAN, i_frag : HdrIndices, seq : PkSeqs]

\* The decoder of the header: fails when fewer than 8 bytes are given or
\* the type bit (bit 0 of byte 0) is not set
decode(buffer) ==
    IF Len(buffer) < 8 \/ buffer[1] % 2 # 1
    THEN [error |-> "MalformedHeader"]
    ELSE [isLastFragment |-> (buffer[1] \div 128) % 2 = 0,
          fragmentIndex  |-> buffer[3] * 256 + buffer[4],
          sequenceNumber |-> buffer[5] * 16777216 + buffer[6] * 65536
                             + buffer[7] * 256 + buffer[8]]

HdrInit ==
    /\ pc = "hd_call"
    /\ \E a \in HdrInputs : call = [fn |-> "header", args |-> a]
    /\ last_seq_num = None
    /\ order = NoOrder
    /\ seq_num = 0
    /\ rx_pending = FALSE
    /\ expected_seq_num = 0
    /\ data = NoData
    /\ pkts = << >>
    /\ i_pkt = 0
    /\ exitCause = "none"
    /\ fetchLog = << >>
    /\ wire = << >>
    /\ markLog = << >>
    /\ nEvents = 0
    /\ annL = None
    /\ annFetch = 0
    /\ annWire = 0
    /\ annState = "none"
    /\ reconnected = FALSE
    /\ reconnL = None
    /\ annReconn = FALSE

\* header = struct.pack(HEADER_FORMAT, octet_0, i_frag, seq_num)
HdrPack ==
    /\ pc = "hd_call"
    /\ call' = [fn |-> "header", args |-> call.args,
                header |-> struct_pack(Octet0(call.args.last),
                                       call.args.i_frag, call.args.seq)]
    /\ pc' = "hd_packed"
    /\ UNCHANGED << last_seq_num, ctl, work, exitCause, hist, nEvents, ann,
                    recon >>

\* The receiver decodes the header
HdrUnpack ==
    /\ pc = "hd_packed"
    /\ call' = [fn |-> "header", args |-> call.args, header |-> call.header,
                decoded |-> decode(call.header)]
    /\ pc' = "hd_unpacked"
    /\ UNCHANGED << last_seq_num, ctl, work, exitCause, hist, nEvents, ann,
                    recon >>

HdrNext == HdrPack \/ HdrUnpack

HdrSpec == HdrInit /\ [][HdrNext]_vars

(* ---------------------------------------------------------------------- *)
(* The for loop of packetize by the number of fragments. A message of more *)
(* than 32786 fragments is longer than the largest integer of the checker, *)
(* so the message is given by its n_frags and the packets by their         *)
(* headers; the payload slices are those of Packet.                        *)
(* ---------------------------------------------------------------------- *)
FragCounts == {0, 1, 2, 255, 256, 257, 65535, 65536, 65537, 65538, 70000}
FragSeqs   == {0, 1, 4660, 65536, 305419896}

FragInit ==
    /\ pc = "fr_call"
    /\ \E n \in FragCounts, q \in FragSeqs :
          call = [fn |-> "packetize", n_frags |-> n, seq |-> q]
    /\ last_seq_num = None
    /\ order = NoOrder
    /\ seq_num = 0
    /\ rx_pending = FALSE
    /\ expected_seq_num = 0
    /\ data = NoData
    /\ pkts = << >>
    /\ i_pkt = 0
    /\ exitCause = "none"
    /\ fetchLog = << >>
    /\ wire = << >>
    /\ markLog = << >>
    /\ nEvents = 0
    /\ annL = None
    /\ annFetch = 0
    /\ annWire = 0
    /\ annState = "none"
    /\ reconnected = FALSE
    /\ reconnL = None
    /\ annReconn = FALSE

\* The iterations of the for loop whose struct.pack raises
PackFailures(n, seq) == {i \in 0..(n - 1) : pack_raises(i, seq)}

\* for i_frag in range(n_frags): every struct.pack succeeds and packetize
\* returns the list
FragPacketize ==
    /\ pc = "fr_call"
    /\ PackFailures(call.n_frags, call.seq) = {}
    /\ pkts' = [k \in 1..call.n_frags |->
                  [header |-> struct_pack(Octet0(k = call.n_frags), k - 1,
                                          call.seq)]]
    /\ pc' = "fr_done"
    /\ UNCHANGED << last_seq_num, ctl, data, i_pkt, exitCause, hist, nEvents,
                    ann, recon, call >>

\* for i_frag in range(n_frags): a struct.pack raises struct.error, which
\* leaves packetize (its list is lost) and main, caught nowhere
FragPacketizeRaises ==
    /\ pc = "fr_call"
    /\ PackFailures(call.n_frags, call.seq) # {}
    /\ pc' = "exited"
    /\ exitCause' = "struct.error"
    /\ UNCHANGED << last_seq_num, ctl, work, hist, nEvents, ann, recon, call >>

FragNext == FragPacketize \/ FragPacketizeRaises

FragSpec == FragInit /\ [][FragNext]_vars

(* ---------------------------------------------------------------------- *)
(* The catch-up loop at the top of the sequence number range. Python       *)
(* integers are unbounded and 2 ** 31 is more than the largest integer of  *)
(* the checker, so here a sequence number is the pair << hi, lo >> that    *)
(* stands for hi * 65536 + lo, and None is the empty tuple. The loop is    *)
(* that of Spec; the message is fetched, packetized and sent in one step   *)
(* and its datagrams are not recorded.                                     *)
(* ---------------------------------------------------------------------- *)
\* w + 1 and w - 1
WSucc(w) == IF w[2] = 65535 THEN << w[1] + 1, 0 >> ELSE << w[1], w[2] + 1 >>
WPred(w) == IF w[2] = 0 THEN << w[1] - 1, 65535 >> ELSE << w[1], w[2] - 1 >>

\* MAX_SEQ_NUM = 2 ** 31
MAX_SEQ_NUM == << 32768, 0 >>
WZero  == << 0, 0 >>
WNone  == << >>

\* Announced sequence numbers: the last two below MAX_SEQ_NUM, MAX_SEQ_NUM
\* itself (a store that does not wrap) and 0, 1 (a store that wraps)
WAnnSeqs == { WPred(WPred(MAX_SEQ_NUM)), WPred(MAX_SEQ_NUM), MAX_SEQ_NUM,
              WZero, WSucc(WZero) }

WInit ==
    /\ pc = "wait"
    /\ last_seq_num = WNone
    /\ order = NoOrder
    /\ seq_num = WZero
    /\ rx_pending = FALSE
    /\ expected_seq_num = WZero
    /\ data = NoData
    /\ pkts = << >>
    /\ i_pkt = 0
    /\ exitCause = "none"
    /\ fetchLog = << >>
    /\ wire = << >>
    /\ markLog = << >>
    /\ nEvents = 0
    /\ annL = WNone
    /\ annFetch = 0
    /\ annWire = 0
    /\ annState = "none"
    /\ reconnected = FALSE
    /\ reconnL = WNone
    /\ annReconn = FALSE
    /\ call = NoCall

\* An event whose order has status "sent"
WEventSent ==
    /\ pc = "wait"
    /\ nEvents < MaxEvents
    /\ \E q \in WAnnSeqs :
        /\ order' = [status |-> "sent", tx_seq_num |-> q]
        /\ seq_num' = q
    /\ rx_pending' = TRUE
    /\ pc' = "loop"
    /\ nEvents' = nEvents + 1
    /\ annL' = last_seq_num
    /\ annFetch' = Len(fetchLog)
    /\ annState' = "handling"
    /\ UNCHANGED << last_seq_num, expected_seq_num, work, exitCause, hist,
                    annWire, annReconn, recon, call >>

\* The expected sequence number of one iteration
WExpected(last, seq) == IF last = WNone THEN seq ELSE WSucc(last)

\* Top of one iteration of while (rx_pending); at most MaxSeq + 1 fetches
WLoopIter ==
    /\ pc = "loop"
    /\ rx_pending
    /\ Len(fetchLog) <= MaxSeq
    /\ expected_seq_num' = WExpected(last_seq_num, seq_num)
    /\ rx_pending' = ~(seq_num = expected_seq_num')
    /\ pc' = "fetch"
    /\ UNCHANGED << last_seq_num, order, seq_num, work, exitCause, hist,
                    nEvents, ann, recon, call >>

\* rx_pending is False: back to waiting for the next event
WLoopExit ==
    /\ pc = "loop"
    /\ ~rx_pending
    /\ pc' = "wait"
    /\ annState' = "done"
    /\ UNCHANGED << last_seq_num, ctl, work, exitCause, hist, nEvents,
                    annL, annFetch, annWire, annReconn, recon, call >>

\* fetch_api_data returns (and the message, if any, is packetized and sent)
WFetchSend ==
    /\ pc = "fetch"
    /\ \E r \in {"ok", "no_content"} :
          fetchLog' = Append(fetchLog,
                             [seq |-> expected_seq_num, result |-> r, len |-> 1])
    /\ pc' = "mark"
    /\ UNCHANGED << last_seq_num, ctl, work, exitCause, wire, markLog, nEvents,
                    ann, recon, call >>

\* fetch_api_data raises (HTTPError or ConnectionError), caught nowhere
WFetchRaises ==
    /\ pc = "fetch"
    /\ \E r \in {"not_found", "conn_error"} :
          /\ fetchLog' = Append(fetchLog,
                             [seq |-> expected_seq_num, result |-> r, len |-> 0])
          /\ exitCause' = (IF r = "not_found" THEN "HTTPError"
                           ELSE "ConnectionError")
    /\ pc' = "exited"
    /\ UNCHANGED << last_seq_num, ctl, work, wire, markLog, nEvents, ann,
                    recon, call >>

\* last_seq_num = expected_seq_num
WMark ==
    /\ pc = "mark"
    /\ last_seq_num' = expected_seq_num
    /\ markLog' = Append(markLog, expected_seq_num)
    /\ pc' = "loop"
    /\ UNCHANGED << ctl, work, exitCause, fetchLog, wire, nEvents, ann, recon,
                    call >>

WNext ==
    \/ WEventSent
    \/ WLoopIter
    \/ WLoopExit
    \/ WFetchSend
    \/ WFetchRaises
    \/ WMark

WrapSpec == WInit /\ [][WNext]_vars

(* ---------------------------------------------------------------------- *)
(* Vocabulary of the properties                                            *)
(* ---------------------------------------------------------------------- *)
\* The sequence a, a+1, ..., b (empty when b < a)
RangeSeq(a, b) == [i \in 1..(b - a + 1) |-> a + i - 1]

IsPrefix(s, t) == Len(s) <= Len(t) /\ \A i \in 1..Len(s) : s[i] = t[i]

\* Sequence numbers fetched since the latest "sent" event was consumed
AnnFetchRecs == SubSeq(fetchLog, annFetch + 1, Len(fetchLog))
AnnFetchSeqs == [i \in 1..Len(AnnFetchRecs) |-> AnnFetchRecs[i].seq]

\* Datagrams handed to the socket since the latest "sent" event was consumed
AnnWire == SubSeq(wire, annWire + 1, Len(wire))

\* What a receiver reads in a header: fragment index and sequence number
HdrFrag(h) == h[3] * 256 + h[4]
HdrSeq(h)  == h[5] * 16777216 + h[6] * 65536 + h[7] * 256 + h[8]

\* The sequence numbers of the messages a datagram list starts (fragment 0)
RECURSIVE MsgsStarted(_)
MsgsStarted(w) ==
    IF w = << >> THEN << >>
    ELSE IF HdrFrag(Head(w).header) = 0
         THEN << HdrSeq(Head(w).header) >> \o MsgsStarted(Tail(w))
         ELSE MsgsStarted(Tail(w))

\* The sequence numbers of the fetches that returned a non-empty message
RECURSIVE DataFetched(_)
DataFetched(log) ==
    IF log = << >> THEN << >>
    ELSE IF Head(log).result = "ok" /\ Head(log).len > 0
         THEN << Head(log).seq >> \o DataFetched(Tail(log))
         ELSE DataFetched(Tail(log))

StrictlyAscending(s) == \A i, j \in 1..Len(s) : i < j => s[i] < s[j]

(* ---------------------------------------------------------------------- *)
(* C1: the fetches issued by the catch-up loop, over all announcements,    *)
(* are strictly ascending (so no number is fetched twice), the messages    *)
(* put on the wire are strictly ascending too, and an event is consumed    *)
(* only when every number from the expected one through the announced one  *)
(* has been fetched.                                                       *)
(* ---------------------------------------------------------------------- *)
C1_AscendingFetches ==
    /\ StrictlyAscending([i \in 1..Len(fetchLog) |-> fetchLog[i].seq])
    /\ StrictlyAscending(MsgsStarted(wire))
    /\ (annState = "handling") => (pc \in {"loop", "fetch", "send", "mark", "exited"})
    /\ (pc = "wait" /\ annState # "none") =>
          /\ annState = "done"
          /\ \A n \in Expected(annL, seq_num)..seq_num :
                \E i \in 1..Len(AnnFetchSeqs) : AnnFetchSeqs[i] = n

\* Two "sent" events handled, the second one two numbers ahead of the tracker
C1_Witness ==
    /\ pc = "wait"
    /\ annState = "done"
    /\ nEvents = 2
    /\ annL # None
    /\ Len(AnnFetchSeqs) = 2
    /\ Len(fetchLog) = 3

(* ---------------------------------------------------------------------- *)
(* C2: with the tracker set to L and a "sent" announcement S > L, the loop *)
(* fetches L+1, L+2, ..., S in that order and nothing else, puts the       *)
(* fetched messages on the wire in that order, and ends with               *)
(* last_seq_num = S.                                                       *)
(* ---------------------------------------------------------------------- *)
C2_CatchUpRange ==
    (annState # "none" /\ annL # None /\ seq_num > annL) =>
        /\ IsPrefix(AnnFetchSeqs, RangeSeq(annL + 1, seq_num))
        /\ IsPrefix(MsgsStarted(AnnWire), DataFetched(AnnFetchRecs))
        /\ (annState = "done") =>
              /\ AnnFetchSeqs = RangeSeq(annL + 1, seq_num)
              /\ Len(AnnFetchSeqs) = seq_num - annL
              /\ MsgsStarted(AnnWire) = DataFetched(AnnFetchRecs)
              /\ last_seq_num = seq_num

\* L = 0, S = 3: three fetches, all with data, tracker at 3
C2_Witness ==
    /\ annState = "done"
    /\ annL = 0
    /\ seq_num = 3
    /\ AnnFetchSeqs = << 1, 2, 3 >>
    /\ MsgsStarted(AnnWire) = << 1, 2, 3 >>
    /\ last_seq_num = 3

(* ---------------------------------------------------------------------- *)
(* C3: with the tracker unset, a "sent" announcement S causes exactly one  *)
(* fetch, for S itself, no fetch of a lower number, and the tracker ends   *)
(* at S.                                                                   *)
(* ---------------------------------------------------------------------- *)
C3_NoBackfill ==
    (annState # "none" /\ annL = None) =>
        /\ fetchLog = AnnFetchRecs
        /\ IsPrefix(AnnFetchSeqs, << seq_num >>)
        /\ (annState = "done") =>
              /\ AnnFetchSeqs = << seq_num >>
              /\ markLog = << seq_num >>
              /\ last_seq_num = seq_num

C3_Witness ==
    /\ annState = "done"
    /\ annL = None
    /\ seq_num = 2
    /\ AnnFetchSeqs = << 2 >>
    /\ last_seq_num = 2

(* ---------------------------------------------------------------------- *)
(* C4: a "sent" announcement S <= last_seq_num is a no-op: no fetch, no    *)
(* datagram, tracker unchanged.                                            *)
(* ---------------------------------------------------------------------- *)
C4_DuplicateNoOp ==
    (annState # "none" /\ annL # None /\ seq_num <= annL) =>
        /\ AnnFetchSeqs = << >>
        /\ AnnWire = << >>
        /\ last_seq_num = annL

(* ---------------------------------------------------------------------- *)
(* C5: a fetch that comes back "not found" is not fatal: no packet is sent *)
(* for that number and the process goes on to mark it and continue.        *)
(* ---------------------------------------------------------------------- *)
C5_NotFoundSkipped ==
    (fetchLog # << >> /\ fetchLog[Len(fetchLog)].result = "not_found") =>
        /\ pc # "exited"
        /\ exitCause = "none"

(* ---------------------------------------------------------------------- *)
(* C6: last_seq_num is monotonic in every step: once set it is never unset *)
(* and never decreases, whatever the fetch outcomes, send failures and     *)
(* feed reconnects; the values recorded are ascending.                     *)
(* ---------------------------------------------------------------------- *)
C6_TrackerMonotonic ==
    [][ /\ (last_seq_num # None) =>
              (last_seq_num' # None /\ last_seq_num' >= last_seq_num)
        /\ (pc' = "exited") => (last_seq_num' = last_seq_num)
      ]_vars

\* The tracker advanced twice, the feed reconnected with the tracker set, and
\* a send failed afterwards
C6_Witness ==
    /\ Len(markLog) >= 2
    /\ reconnL # None
    /\ annReconn
    /\ exitCause = "OSError"

(* ---------------------------------------------------------------------- *)
(* C7: the numbers marked processed are the contiguous interval from the   *)
(* first processed number to last_seq_num, each marked once; when an       *)
(* announcement S has been handled, every number from the first processed  *)
(* one through S has been fetched, also when the announcements of the      *)
(* numbers in between were never delivered.                                *)
(* ---------------------------------------------------------------------- *)
C7_ContiguousProcessed ==
    /\ (markLog = << >>) <=> (last_seq_num = None)
    /\ (markLog # << >>) =>
          /\ markLog = RangeSeq(markLog[1], last_seq_num)
          /\ \A i \in 1..Len(markLog) :
                \E j \in 1..Len(fetchLog) : fetchLog[j].seq = markLog[i]
    /\ (annState = "done") =>
          /\ last_seq_num = seq_num
          /\ \A n \in markLog[1]..seq_num :
                \E j \in 1..Len(fetchLog) : fetchLog[j].seq = n

\* Announcements 0 and 3 only, the second after a reconnect: 1 and 2 were
\* never announced
C7_Witness ==
    /\ annState = "done"
    /\ nEvents = 2
    /\ annReconn
    /\ annL = 0
    /\ seq_num = 3
    /\ markLog = << 0, 1, 2, 3 >>

(* ---------------------------------------------------------------------- *)
(* C8: a reconnect of the feed leaves last_seq_num unchanged, so the first *)
(* "sent" announcement S after it is handled relative to the tracker value *)
(* from before the reconnect and fetches old last + 1 through S.           *)
(* ---------------------------------------------------------------------- *)
C8_ReconnectKeepsTracker ==
    /\ [][ (pc \in {"wait", "connect"} /\ pc' \in {"wait", "connect"}) =>
              (last_seq_num' = last_seq_num) ]_vars
    /\ [](reconnected => (reconnL = last_seq_num))
    /\ []((annState # "none" /\ annReconn /\ ~reconnected) =>
              /\ annL = reconnL
              /\ (annL # None /\ seq_num > annL) =>
                    IsPrefix(AnnFetchSeqs, RangeSeq(reconnL + 1, seq_num))
              /\ (annL # None /\ annState = "done") =>
                    AnnFetchSeqs = RangeSeq(reconnL + 1, seq_num))

\* Tracker at 1 before the reconnect, announcement 3 after it
C8_Witness ==
    /\ annState = "done"
    /\ annReconn
    /\ ~reconnected
    /\ reconnL = 1
    /\ seq_num = 3
    /\ AnnFetchSeqs = << 2, 3 >>

(* ---------------------------------------------------------------------- *)
(* C9: an event whose status is not "sent" causes no fetch, no datagram    *)
(* and no change of the tracker: consuming it changes nothing but the      *)
(* order read, and whatever is fetched, sent or recorded is done while a   *)
(* "sent" order is being handled.                                          *)
(* ---------------------------------------------------------------------- *)
C9_OnlySentActs ==
    /\ [][ (nEvents' # nEvents /\ order'.status # "sent") =>
              /\ pc' = "wait"
              /\ UNCHANGED << last_seq_num, seq_num, rx_pending,
                              expected_seq_num, fetchLog, wire, markLog >>
         ]_vars
    /\ [][ (fetchLog' # fetchLog \/ wire' # wire \/ last_seq_num' # last_seq_num) =>
              (order.status = "sent" /\ order' = order) ]_vars
    /\ [](pc \in {"loop", "fetch", "send", "mark"} => order.status = "sent")

\* A "transmitting" event consumed with the tracker set and behind the event
C9_Witness ==
    /\ pc = "wait"
    /\ order.status = "transmitting"
    /\ last_seq_num # None
    /\ order.tx_seq_num > last_seq_num
    /\ nEvents >= 2

(* ---------------------------------------------------------------------- *)
(* C10: every header is 8 bytes: byte 0 is 0x01 on the last fragment and   *)
(* 0x81 on the others, byte 1 is 0, bytes 2-3 are the fragment index as a  *)
(* big-endian unsigned 16 bit number, bytes 4-7 the sequence number as a   *)
(* big-endian unsigned 32 bit number.                                      *)
(* ---------------------------------------------------------------------- *)
C10_HeaderLayout ==
    (pc = "pk_done") =>
        \A k \in 1..Len(pkts) :
            LET h == pkts[k].header IN
            /\ Len(h) = 8
            /\ \A b \in 1..8 : h[b] \in 0..255
            /\ h[1] = (IF k = Len(pkts) THEN 1 ELSE 129)
            /\ h[2] = 0
            /\ h[3] * 256 + h[4] = k - 1
            /\ h[5] * 16777216 + h[6] * 65536 + h[7] * 256 + h[8]
                  = expected_seq_num

\* 257 fragments (the last index needs both index bytes) of message
\* 0x12345678
C10_Witness ==
    /\ pc = "pk_done"
    /\ Len(pkts) = 257
    /\ expected_seq_num = 305419896
    /\ pkts[257].header = << 1, 0, 1, 0, 18, 52, 86, 120 >>
    /\ pkts[256].header = << 129, 0, 0, 255, 18, 52, 86, 120 >>

(* ---------------------------------------------------------------------- *)
(* Vocabulary of the packet properties                                     *)
(* ---------------------------------------------------------------------- *)
\* Payload bytes carried by a packet, and its total length
PayloadLen(pkt) == pkt.payload.to - pkt.payload.from
PktLen(pkt)     == Len(pkt.header) + PayloadLen(pkt)

Max(a, b) == IF a >= b THEN a ELSE b

\* ceil(a / b) by counting: the least q with q * b >= a
CeilDiv(a, b) ==
    CHOOSE q \in 0..(a \div b + 1) : q * b >= a /\ (q = 0 \/ (q - 1) * b < a)

(* ---------------------------------------------------------------------- *)
(* C11: a payload of L bytes is put into max(1, ceil(L / MAX_UDP_PLOAD))   *)
(* packets.                                                                *)
(* ---------------------------------------------------------------------- *)
C11_FragmentCount ==
    (pc = "pk_done") =>
        Len(pkts) = Max(1, CeilDiv(data.len, MAX_UDP_PLOAD))

(* ---------------------------------------------------------------------- *)
(* C12: a zero-length message yields exactly one packet: a header with     *)
(* fragment index 0 and the more-fragments bit clear, and an empty payload *)
(* slice.                                                                  *)
(* ---------------------------------------------------------------------- *)
C12_EmptyMessageOnePacket ==
    (pc = "pk_done" /\ data.len = 0) =>
        /\ Len(pkts) = 1
        /\ pkts[1].header[1] = 1
        /\ pkts[1].header[3] = 0
        /\ pkts[1].header[4] = 0
        /\ PayloadLen(pkts[1]) = 0

(* ---------------------------------------------------------------------- *)
(* C13: the payload slices of the packets, in list order, are the bytes of *)
(* the message from offset 0 to its length, each slice starting where the  *)
(* one before it ends: no byte lost, duplicated or reordered.              *)
(* ---------------------------------------------------------------------- *)
C13_SlicesReconstruct ==
    (pc = "pk_done") =>
        LET n == Len(pkts) IN
        /\ \A k \in 1..n :
              /\ pkts[k].payload.msg = data.msg
              /\ pkts[k].payload.from <= pkts[k].payload.to
        /\ (n = 0) => (data.len = 0)
        /\ (n > 0) => /\ pkts[1].payload.from = 0
                      /\ pkts[n].payload.to = data.len
        /\ \A k \in 1..(n - 1) : pkts[k].payload.to = pkts[k + 1].payload.from

\* Three fragments, the last one of five bytes
C13_Witness ==
    /\ pc = "pk_done"
    /\ data.len = 131003
    /\ Len(pkts) = 3
    /\ pkts[2].payload.from = 65499
    /\ pkts[3].payload.from = 130998
    /\ pkts[3].payload.to = 131003

(* ---------------------------------------------------------------------- *)
(* C14: among the packets of one message exactly one has the               *)
(* more-fragments bit clear (byte 0 = 0x01), the one with the highest      *)
(* fragment index; every other packet has byte 0 = 0x81.                   *)
(* ---------------------------------------------------------------------- *)
C14_OneLastFragment ==
    (pc = "pk_done") =>
        /\ Cardinality({k \in 1..Len(pkts) : pkts[k].header[1] = 1}) = 1
        /\ pkts[Len(pkts)].header[1] = 1
        /\ \A k \in 1..(Len(pkts) - 1) : pkts[k].header[1] = 129

(* ---------------------------------------------------------------------- *)
(* C16: every packet is at most 8 + 65499 = 65507 bytes long, so that with *)
(* the 8 byte UDP header and the 20 byte IP header it is at most 65535     *)
(* bytes; every packet but the last carries exactly 65499 payload bytes.   *)
(* ---------------------------------------------------------------------- *)
C16_PacketSize ==
    (pc = "pk_done") =>
        \A k \in 1..Len(pkts) :
            /\ Len(pkts[k].header) = 8
            /\ PktLen(pkts[k]) <= 65507
            /\ PktLen(pkts[k]) + 8 + 20 <= 65535
            /\ (k < Len(pkts)) => (PayloadLen(pkts[k]) = 65499)

\* A full first packet followed by a one-byte packet
C16_Witness ==
    /\ pc = "pk_done"
    /\ Len(pkts) = 2
    /\ PktLen(pkts[1]) = 65507
    /\ PktLen(pkts[2]) = 9

(* ---------------------------------------------------------------------- *)
(* C15: the packets of one message carry the fragment indices 0, 1, ...,   *)
(* count-1 in list order, and send_pkts hands them to the socket one       *)
(* datagram each in that order: on the wire every datagram either starts a *)
(* message (index 0) or continues the message of the datagram before it    *)
(* with the next index.                                                    *)
(* ---------------------------------------------------------------------- *)
C15_AscendingIndices ==
    /\ \A k \in 1..Len(pkts) : HdrFrag(pkts[k].header) = k - 1
    /\ (pc = "send") =>
          /\ i_pkt <= Len(wire)
          /\ SubSeq(wire, Len(wire) - i_pkt + 1, Len(wire)) = SubSeq(pkts, 1, i_pkt)
    /\ \A j \in 1..Len(wire) :
          \/ HdrFrag(wire[j].header) = 0
          \/ /\ j > 1
             /\ HdrSeq(wire[j].header) = HdrSeq(wire[j - 1].header)
             /\ HdrFrag(wire[j].header) = HdrFrag(wire[j - 1].header) + 1

\* Both packets of a two-fragment message have been handed to the socket
C15_Witness ==
    /\ pc = "mark"
    /\ Len(pkts) = 2
    /\ i_pkt = 2
    /\ Len(wire) >= 3
    /\ HdrFrag(wire[Len(wire) - 1].header) = 0
    /\ HdrFrag(wire[Len(wire)].header) = 1

(* ---------------------------------------------------------------------- *)
(* C20: a failure of one datagram send does not abort the batch: it does   *)
(* not end the process and leaves no packet of the message unsent.         *)
(* ---------------------------------------------------------------------- *)
C20_SendFailureNotFatal ==
    ~(pc = "exited" /\ exitCause = "OSError" /\ i_pkt < Len(pkts))

(* ---------------------------------------------------------------------- *)
(* C17: a message of more than 65536 fragments is refused as a whole:      *)
(* packetize fails, returns no packet, nothing is sent and no header with  *)
(* a wrapped fragment index exists; a message of at most 65536 fragments   *)
(* is accepted, with every index equal to the packet's place in the list.  *)
(* ---------------------------------------------------------------------- *)
C17_TooManyFragments ==
    /\ (pc = "exited") =>
          /\ call.n_frags > 65536
          /\ exitCause = "struct.error"
          /\ pkts = << >>
          /\ wire = << >>
    /\ (pc = "fr_done") =>
          /\ call.n_frags <= 65536
          /\ Len(pkts) = call.n_frags
          /\ LET list == pkts \o << >> IN
             \A k \in 1..Len(list) :
                /\ HdrFrag(list[k].header) = k - 1
                /\ HdrSeq(list[k].header) = call.seq

\* 65537 fragments: refused
C17_Witness ==
    /\ pc = "exited"
    /\ call.n_frags = 65537
    /\ exitCause = "struct.error"

(* ---------------------------------------------------------------------- *)
(* C19: decoding the 8 bytes made by the encoder gives back the triple     *)
(* (is last, fragment index, sequence number), and no other triple encodes *)
(* to the same 8 bytes.                                                    *)
(* ---------------------------------------------------------------------- *)
C19_HeaderRoundTrip ==
    /\ (pc = "hd_unpacked") =>
          call.decoded = [isLastFragment |-> call.args.last,
                          fragmentIndex  |-> call.args.i_frag,
                          sequenceNumber |-> call.args.seq]
    /\ (pc \in {"hd_packed", "hd_unpacked"}) =>
          \A t \in HdrInputs :
              (struct_pack(Octet0(t.last), t.i_frag, t.seq) = call.header)
                  => (t = call.args)

\* A non-last fragment with a two-byte index and a four-byte sequence number
C19_Witness ==
    /\ pc = "hd_unpacked"
    /\ call.args = [last |-> FALSE, i_frag |-> 257, seq |-> 305419896]
    /\ call.header = << 129, 0, 1, 1, 18, 52, 86, 120 >>
    /\ call.decoded.fragmentIndex = 257

(* ---------------------------------------------------------------------- *)
(* C18: the expected next number is (last + 1) modulo MAX_SEQ_NUM: with    *)
(* the tracker at MAX_SEQ_NUM - 1 and the announcement 0, the loop expects *)
(* 0, fetches it once and nothing else, and leaves the tracker at 0.       *)
(* ---------------------------------------------------------------------- *)
C18_ExpectedWraps ==
    (annState # "none" /\ annL = WPred(MAX_SEQ_NUM) /\ seq_num = WZero) =>
        /\ (pc \in {"fetch", "mark"}) => (expected_seq_num = WZero)
        /\ Len(fetchLog) - annFetch <= 1
        /\ \A i \in (annFetch + 1)..Len(fetchLog) : fetchLog[i].seq = WZero
        /\ (annState = "done") => (last_seq_num = WZero)

\* How many times the number n was asked of the API
Attempts(n) == Cardinality({i \in 1..Len(fetchLog) : fetchLog[i].seq = n})

(* ---------------------------------------------------------------------- *)
(* C21: a fetch that fails with a transient transport error is tried again *)
(* for the same number: the process does not stop on a first failed        *)
(* attempt.                                                                *)
(* ---------------------------------------------------------------------- *)
C21_FetchRetried ==
    ~(/\ pc = "exited"
      /\ exitCause = "ConnectionError"
      /\ Attempts(expected_seq_num) <= 1)

(* ---------------------------------------------------------------------- *)
(* C22: no failure of the feed connection ends the process: after a        *)
(* protocol error and after a retry-limit error alike the consumer         *)
(* subscribes again.                                                       *)
(* ---------------------------------------------------------------------- *)
C22_FeedFailureReconnects ==
    (exitCause = "MaxRetryError") => (pc = "connect")

(* ---------------------------------------------------------------------- *)
(* open_sock on its own: the TTL drawn from a bounded set                  *)
(* ---------------------------------------------------------------------- *)
\* --ttl is any int of the command line; asserts are off under python -O
TTLs == (0 - 130)..300
SockInputs == [ttl : TTLs, asserts : BOOLEAN]

\* struct.pack('b', v) raises struct.error outside the signed byte range
byte_raises(v) == v < (0 - 128) \/ v > 127

\* struct.pack('b', v): one byte, two's complement
byte_pack(v) == << v % 256 >>

SockInit ==
    /\ pc = "sk_call"
    /\ \E a \in SockInputs :
          call = [fn |-> "open_sock", ttl |-> a.ttl, asserts |-> a.asserts]
    /\ last_seq_num = None
    /\ order = NoOrder
    /\ seq_num = 0
    /\ rx_pending = FALSE
    /\ expected_seq_num = 0
    /\ data = NoData
    /\ pkts = << >>
    /\ i_pkt = 0
    /\ exitCause = "none"
    /\ fetchLog = << >>
    /\ wire = << >>
    /\ markLog = << >>
    /\ nEvents = 0
    /\ annL = None
    /\ annFetch = 0
    /\ annWire = 0
    /\ annState = "none"
    /\ reconnected = FALSE
    /\ reconnL = None
    /\ annReconn = FALSE

\* assert(ttl <= 255) fails
OpenSockAssertFails ==
    /\ pc = "sk_call"
    /\ call.asserts
    /\ ~(call.ttl <= 255)
    /\ pc' = "exited"
    /\ exitCause' = "AssertionError"
    /\ UNCHANGED << last_seq_num, ctl, work, hist, nEvents, ann, recon, call >>

\* The assert passes (or is compiled out), socket, bind and the interface
\* lookup succeed, and struct.pack('b', ttl) raises struct.error
OpenSockPackRaises ==
    /\ pc = "sk_call"
    /\ call.asserts => (call.ttl <= 255)
    /\ byte_raises(call.ttl)
    /\ pc' = "exited"
    /\ exitCause' = "struct.error"
    /\ UNCHANGED << last_seq_num, ctl, work, hist, nEvents, ann, recon, call >>

\* setsockopt(IPPROTO_IP, IP_MULTICAST_TTL, struct.pack('b', ttl)); return sock
OpenSockReturn ==
    /\ pc = "sk_call"
    /\ call.asserts => (call.ttl <= 255)
    /\ ~byte_raises(call.ttl)
    /\ call' = [fn |-> "open_sock", ttl |-> call.ttl, asserts |-> call.asserts,
                optval |-> byte_pack(call.ttl)]
    /\ pc' = "sk_done"
    /\ UNCHANGED << last_seq_num, ctl, work, exitCause, hist, nEvents, ann,
                    recon >>

SockNext == OpenSockAssertFails \/ OpenSockPackRaises \/ OpenSockReturn

SockSpec == SockInit /\ [][SockNext]_vars

(* ---------------------------------------------------------------------- *)
(* C23: open_sock accepts every TTL of 1..255 and hands exactly that TTL   *)
(* to the socket; a TTL above 255 is refused.                              *)
(* ---------------------------------------------------------------------- *)
C23_TtlRange ==
    (pc \in {"sk_done", "exited"}) =>
        /\ (call.ttl \in 1..255) =>
              /\ pc = "sk_done"
              /\ call.optval = << call.ttl >>
        /\ (call.ttl > 255) => (pc = "exited")

(* ---------------------------------------------------------------------- *)
(* C24: handling of an announcement S ends after finitely many fetches:    *)
(* the loop stops as soon as the expected number exceeds S, so no number   *)
(* above S is ever fetched, sent or marked while S is being handled.       *)
(* ---------------------------------------------------------------------- *)
C24_LoopStopsPastAnnounced ==
    (pc \in {"fetch", "send", "mark"}) => (expected_seq_num <= seq_num)

\* Every datagram of the fetches of a log, in the order of the log
RECURSIVE AllPackets(_)
AllPackets(log) ==
    IF log = << >> THEN << >>
    ELSE IF Head(log).result = "ok"
         THEN packetize([msg |-> Head(log).seq, len |-> Head(log).len],
                        Head(log).seq) \o AllPackets(Tail(log))
         ELSE AllPackets(Tail(log))

(* ---------------------------------------------------------------------- *)
(* C25: fetch and transmit are serialized per sequence number: at most one *)
(* number is between its fetch and its mark at any time, and whenever the  *)
(* next fetch is about to start every earlier fetch has been marked and    *)
(* every packet of every earlier message has been handed to the socket.    *)
(* ---------------------------------------------------------------------- *)
C25_Serialized ==
    [][ /\ (fetchLog' # fetchLog) =>
              /\ pc = "fetch"
              /\ fetchLog' = Append(fetchLog, fetchLog'[Len(fetchLog')])
              /\ fetchLog'[Len(fetchLog')].seq = expected_seq_num
              /\ Len(markLog) = Len(fetchLog)
              /\ \A i \in 1..Len(markLog) : markLog[i] = fetchLog[i].seq
              /\ i_pkt = Len(pkts)
              /\ wire = AllPackets(fetchLog)
        /\ (markLog' # markLog) =>
              /\ Len(fetchLog) = Len(markLog) + 1
              /\ markLog' = Append(markLog, fetchLog[Len(fetchLog)].seq)
        /\ (wire' # wire) =>
              /\ Len(fetchLog) = Len(markLog) + 1
              /\ HdrSeq(wire'[Len(wire')].header) = fetchLog[Len(fetchLog)].seq
      ]_vars

\* The fetch of the next number is about to start after a two-fragment message
C25_Witness ==
    /\ pc = "fetch"
    /\ fetchLog # << >>
    /\ fetchLog[Len(fetchLog)].result = "ok"
    /\ fetchLog[Len(fetchLog)].len = MAX_UDP_PLOAD + 1
    /\ expected_seq_num = fetchLog[Len(fetchLog)].seq + 1
    /\ Len(wire) >= 2
    /\ HdrFrag(wire[Len(wire)].header) = 1
    /\ markLog[Len(markLog)] = fetchLog[Len(fetchLog)].seq

(* ---------------------------------------------------------------------- *)
(* C26: the tracker is set to E only after the fetch of E has returned     *)
(* and, when it returned data, after every packet of E was sent: whenever  *)
(* last_seq_num = n the fetch of n has completed and its packets are on    *)
(* the wire; while E is being fetched or sent, and after an exception that *)
(* interrupts the fetch or the send of E, the tracker is E - 1 or unset.   *)
(* ---------------------------------------------------------------------- *)
C26_MarkAfterFetchAndSend ==
    [][ /\ (last_seq_num' # last_seq_num) =>
              /\ fetchLog # << >>
              /\ fetchLog[Len(fetchLog)].seq = last_seq_num'
              /\ fetchLog[Len(fetchLog)].result \in {"ok", "no_content"}
              /\ (fetchLog[Len(fetchLog)].result = "ok") =>
                    /\ i_pkt = Len(pkts)
                    /\ pkts = packetize(data, last_seq_num')
                    /\ Len(wire) >= Len(pkts)
                    /\ SubSeq(wire, Len(wire) - Len(pkts) + 1, Len(wire)) = pkts
        /\ (pc \in {"fetch", "send"}) =>
              /\ last_seq_num # expected_seq_num
              /\ last_seq_num \in {None, expected_seq_num - 1}
              /\ last_seq_num' = last_seq_num
      ]_vars

\* sendto raises on the second packet of message E: the tracker is E - 1
C26_Witness ==
    /\ pc = "exited"
    /\ exitCause = "OSError"
    /\ Len(pkts) = 2
    /\ i_pkt = 1
    /\ last_seq_num # None
    /\ last_seq_num = expected_seq_num - 1
    /\ markLog[Len(markLog)] = last_seq_num

(* ---------------------------------------------------------------------- *)
(* The consumer under a shutdown signal: SIGINT is delivered to the main   *)
(* thread as KeyboardInterrupt, between any two statements or inside a     *)
(* blocking call; no handler is installed and no except clause catches it  *)
(* ---------------------------------------------------------------------- *)
KeyboardInterrupt ==
    /\ pc # "exited"
    /\ pc' = "exited"
    /\ exitCause' = "KeyboardInterrupt"
    /\ UNCHANGED << last_seq_num, ctl, work, hist, nEvents, ann, recon, call >>

IntNext ==
    \/ Next
    \/ KeyboardInterrupt

IntSpec == Init /\ [][IntNext]_vars

(* ---------------------------------------------------------------------- *)
(* C27: a shutdown signal takes effect only at a message boundary: the     *)
(* process never stops on the signal with some but not all packets of the  *)
(* current message handed to the socket.                                   *)
(* ---------------------------------------------------------------------- *)
C27_ShutdownAtBoundary ==
    (pc = "exited" /\ exitCause = "KeyboardInterrupt") =>
        (i_pkt = 0 \/ i_pkt = Len(pkts))

(* ---------------------------------------------------------------------- *)
(* C28: every packet carries in its header the number of the message that  *)
(* was fetched (the expected number E of its iteration), not the announced *)
(* number S of the event; all packets of a message carry the same number,  *)
(* and the payload under header number E is data returned by the fetch     *)
(* of E.                                                                   *)
(* ---------------------------------------------------------------------- *)
C28_HeaderCarriesFetched ==
    [][ /\ (pkts' # pkts) =>
              /\ data'.msg = expected_seq_num
              /\ pkts' = packetize(data', expected_seq_num)
              /\ \A k \in 1..Len(pkts') :
                    /\ HdrSeq(pkts'[k].header) = expected_seq_num
                    /\ pkts'[k].payload.msg = expected_seq_num
              /\ fetchLog'[Len(fetchLog')] =
                    [seq |-> expected_seq_num, result |-> "ok", len |-> data'.len]
        /\ (wire' # wire) =>
              /\ wire' = Append(wire, pkts[i_pkt + 1])
              /\ HdrSeq(wire'[Len(wire')].header) = expected_seq_num
              /\ wire'[Len(wire')].payload.msg = expected_seq_num
              /\ wire'[Len(wire')].payload.to <= data.len
              /\ fetchLog[Len(fetchLog)] =
                    [seq |-> expected_seq_num, result |-> "ok", len |-> data.len]
              /\ (expected_seq_num # seq_num) =>
                    (HdrSeq(wire'[Len(wire')].header) # seq_num)
      ]_vars

\* Catching up: both packets of message E < S are on the wire under number E
C28_Witness ==
    /\ pc = "mark"
    /\ expected_seq_num < seq_num
    /\ Len(pkts) = 2
    /\ i_pkt = 2
    /\ Len(wire) >= 2
    /\ HdrSeq(wire[Len(wire)].header) = expected_seq_num
    /\ HdrSeq(wire[Len(wire) - 1].header) = expected_seq_num
    /\ wire[Len(wire)].payload.msg = expected_seq_num

(* ---------------------------------------------------------------------- *)
(* _set_rp_filters(dvb_if) on its own, over every initial configuration    *)
(* of net.ipv4.conf.*.rp_filter.  The configuration is a function from the *)
(* entries of /proc/sys/net/ipv4/conf to the kernel's values 0, 1, 2; the  *)
(* dot/slash renaming of sysctl names maps every entry to its own key.     *)
(* ---------------------------------------------------------------------- *)
RpIfs    == {"all", "lo", "eth0", "dvb0_0"}
RpDvbIf  == "dvb0_0"
RpValues == 0..2
RpConfs  == [RpIfs -> RpValues]

RpInit ==
    /\ pc = "rp_call"
    /\ \E c \in RpConfs :
          call = [fn |-> "_set_rp_filters", dvb_if |-> RpDvbIf,
                  initial |-> c, sysctl |-> c, all_cfg |-> 0, ifs |-> {}]
    /\ last_seq_num = None
    /\ order = NoOrder
    /\ seq_num = 0
    /\ rx_pending = FALSE
    /\ expected_seq_num = 0
    /\ data = NoData
    /\ pkts = << >>
    /\ i_pkt = 0
    /\ exitCause = "none"
    /\ fetchLog = << >>
    /\ wire = << >>
    /\ markLog = << >>
    /\ nEvents = 0
    /\ annL = None
    /\ annFetch = 0
    /\ annWire = 0
    /\ annState = "none"
    /\ reconnected = FALSE
    /\ reconnL = None
    /\ annReconn = FALSE

RpRest == << last_seq_num, ctl, work, exitCause, hist, nEvents, ann, recon >>

\* all_cfg = sysctl net.ipv4.conf.all.rp_filter, and the branch on it; in the
\* else branch ifs = os.listdir("/proc/sys/net/ipv4/conf/")
RpCheckAll ==
    /\ pc = "rp_call"
    /\ IF call.sysctl["all"] = 0
       THEN /\ call' = [call EXCEPT !.all_cfg = call.sysctl["all"]]
            /\ pc' = "rp_dvb"
       ELSE /\ call' = [call EXCEPT !.all_cfg = call.sysctl["all"],
                                    !.ifs = RpIfs]
            /\ pc' = "rp_loop"
    /\ UNCHANGED RpRest

\* One iteration of for interface in ifs (listdir gives no order)
RpEnableOne ==
    /\ pc = "rp_loop"
    /\ \E interface \in call.ifs :
          IF interface = "all" \/ interface = call.dvb_if
          THEN call' = [call EXCEPT !.ifs = call.ifs \ {interface}]
          ELSE IF call.sysctl[interface] > 0
               THEN call' = [call EXCEPT !.ifs = call.ifs \ {interface}]
               ELSE call' = [call EXCEPT !.ifs = call.ifs \ {interface},
                                         !.sysctl[interface] = 1]
    /\ UNCHANGED pc
    /\ UNCHANGED RpRest

\* After the loop: sysctl -w net.ipv4.conf.all.rp_filter=0
RpDisableAll ==
    /\ pc = "rp_loop"
    /\ call.ifs = {}
    /\ call' = [call EXCEPT !.sysctl["all"] = 0]
    /\ pc' = "rp_dvb"
    /\ UNCHANGED RpRest

\* sysctl -w net.ipv4.conf.<dvb_if>.rp_filter=0, last statement of either branch
RpDisableDvb ==
    /\ pc = "rp_dvb"
    /\ call' = [call EXCEPT !.sysctl[call.dvb_if] = 0]
    /\ pc' = "rp_done"
    /\ UNCHANGED RpRest

RpNext == RpCheckAll \/ RpEnableOne \/ RpDisableAll \/ RpDisableDvb

RpSpec == RpInit /\ [][RpNext]_vars

(* ---------------------------------------------------------------------- *)
(* C29: after _set_rp_filters(dvb_if), whatever the initial configuration, *)
(* the "all" rule and the DVB interface have rp_filter = 0 and every other *)
(* interface has rp_filter > 0.                                            *)
(* ---------------------------------------------------------------------- *)
C29_OnlyDvbDisabled ==
    (pc = "rp_done") =>
        /\ call.sysctl["all"] = 0
        /\ call.sysctl[call.dvb_if] = 0
        /\ \A i \in RpIfs \ {"all", call.dvb_if} : call.sysctl[i] > 0

(* ---------------------------------------------------------------------- *)
(* _set_ip(net_if, ip_addr) as called by set_ip and by the reset_ip timer  *)
(* every 10 seconds.  The interface is the list of addresses printed by    *)
(* "ip addr show dev", in the order printed.                               *)
(* ---------------------------------------------------------------------- *)
\* Number of _set_ip calls in one behaviour
MaxCalls == 3

IpTarget  == [fam |-> "inet",  ip |-> "192.168.201.2", prefix |-> 24]
IpAddrs   == { IpTarget,
               [fam |-> "inet",  ip |-> "192.168.201.2", prefix |-> 16],
               [fam |-> "inet",  ip |-> "10.0.0.1",      prefix |-> 24],
               [fam |-> "inet6", ip |-> "fe80::1",       prefix |-> 64] }
IpIfStates == { << >> } \cup { << a >> : a \in IpAddrs }
                  \cup { p \in { << a, b >> : a \in IpAddrs, b \in IpAddrs } :
                             p[1] # p[2] }

\* The first line of the listing that has "inet" and not "inet6"
RECURSIVE FirstInet(_)
FirstInet(lines) ==
    IF lines = << >> THEN << >>
    ELSE IF Head(lines).fam = "inet" THEN << Head(lines) >>
         ELSE FirstInet(Tail(lines))

\* _check_ip comparing the addresses without their prefix length
check_ip_AddressOnly(lines, ip_addr) ==
    LET inet == FirstInet(lines) IN
    [has_ip |-> inet # << >>,
     ip_ok  |-> inet # << >> /\ inet[1].ip = ip_addr.ip]

\* _check_ip: (has_ip, ip_ok); IPv4Interface equality is address and prefix
check_ip(lines, ip_addr) ==
    LET inet == FirstInet(lines) IN
    [has_ip |-> inet # << >>,
     ip_ok  |-> inet # << >> /\ inet[1].ip = ip_addr.ip
                             /\ inet[1].prefix = ip_addr.prefix]

IpInit ==
    /\ pc = "ip_idle"
    /\ \E s \in IpIfStates :
          call = [fn |-> "_set_ip", ip_addr |-> IpTarget, addrs |-> s,
                  before |-> s, has_ip |-> FALSE, ip_ok |-> FALSE,
                  cmds |-> << >>, prev_cmds |-> << >>, n_calls |-> 0,
                  repeated |-> FALSE]
    /\ last_seq_num = None
    /\ order = NoOrder
    /\ seq_num = 0
    /\ rx_pending = FALSE
    /\ expected_seq_num = 0
    /\ data = NoData
    /\ pkts = << >>
    /\ i_pkt = 0
    /\ exitCause = "none"
    /\ fetchLog = << >>
    /\ wire = << >>
    /\ markLog = << >>
    /\ nEvents = 0
    /\ annL = None
    /\ annFetch = 0
    /\ annWire = 0
    /\ annState = "none"
    /\ reconnected = FALSE
    /\ reconnL = None
    /\ annReconn = FALSE

\* has_ip, ip_ok = _check_ip(net_if, ip_addr); repeated: the call follows a
\* completed call with no change of the interface in between
IpCheck ==
    /\ pc \in {"ip_idle", "ip_done"}
    /\ call.n_calls < MaxCalls
    /\ LET r == check_ip(call.addrs, call.ip_addr) IN
       call' = [call EXCEPT !.has_ip = r.has_ip, !.ip_ok = r.ip_ok,
                            !.before = call.addrs, !.cmds = << >>,
                            !.prev_cmds = call.cmds,
                            !.repeated = (pc = "ip_done")]
    /\ pc' = "ip_checked"
    /\ UNCHANGED RpRest

\* if (has_ip and not ip_ok): ip address flush dev net_if
IpFlush ==
    /\ pc = "ip_checked"
    /\ IF call.has_ip /\ ~call.ip_ok
       THEN call' = [call EXCEPT !.addrs = << >>,
                                 !.cmds = Append(call.cmds, "flush")]
       ELSE UNCHANGED call
    /\ pc' = "ip_flushed"
    /\ UNCHANGED RpRest

\* if (not has_ip or not ip_ok): ip address add ip_addr dev net_if
IpAdd ==
    /\ pc = "ip_flushed"
    /\ IF ~call.has_ip \/ ~call.ip_ok
       THEN call' = [call EXCEPT !.addrs = Append(call.addrs, call.ip_addr),
                                 !.cmds = Append(call.cmds, "add"),
                                 !.n_calls = call.n_calls + 1]
       ELSE call' = [call EXCEPT !.n_calls = call.n_calls + 1]
    /\ pc' = "ip_done"
    /\ UNCHANGED RpRest

\* Between two calls something else changes the addresses of the interface
IpChanged ==
    /\ pc = "ip_done"
    /\ call.n_calls < MaxCalls
    /\ \E s \in IpIfStates \ {call.addrs} : call' = [call EXCEPT !.addrs = s]
    /\ pc' = "ip_idle"
    /\ UNCHANGED RpRest

IpNext == IpCheck \/ IpFlush \/ IpAdd \/ IpChanged

IpSpec == IpInit /\ [][IpNext]_vars

\* The command was run by the _set_ip call in progress or just completed
IpRan(cmd) == \E i \in 1..Len(call.cmds) : call.cmds[i] = cmd

\* The IPv4 address of a listing that _check_ip looks at differs from target
IpDiffers(lines) == FirstInet(lines) # << >> /\ FirstInet(lines)[1] # IpTarget

(* ---------------------------------------------------------------------- *)
(* C30: _set_ip converges and is idempotent: from an interface with no     *)
(* IPv4 address, with the target address or with another address, the call *)
(* leaves the target address on the interface; flush runs only when an     *)
(* address exists and differs from the target, add runs exactly when the   *)
(* address is missing or differs, and a call that follows a completed call *)
(* on an unchanged interface runs no command and changes nothing.          *)
(* ---------------------------------------------------------------------- *)
C30_SetIpIdempotent ==
    (pc = "ip_done") =>
        /\ FirstInet(call.addrs) = << IpTarget >>
        /\ IpRan("flush") <=> IpDiffers(call.before)
        /\ IpRan("add") <=> (FirstInet(call.before) = << >> \/ IpDiffers(call.before))
        /\ IpRan("flush") => (call.cmds = << "flush", "add" >>)
        /\ (FirstInet(call.before) = << IpTarget >>) =>
              (call.cmds = << >> /\ call.addrs = call.before)
        /\ call.repeated => (call.cmds = << >> /\ call.addrs = call.before)

\* A call that flushed and added, followed by a call that ran nothing
C30_Witness ==
    /\ pc = "ip_done"
    /\ call.repeated
    /\ call.prev_cmds = << "flush", "add" >>
    /\ call.cmds = << >>
    /\ call.addrs = << IpTarget >>
    /\ call.n_calls = 2

====
